---- MODULE Spec2Model ----
(***************************************************************************)
(* Model of the Ethica backend glue code.                                  *)
(*                                                                         *)
(*   - the /extract-ingredients server (express app with one async POST    *)
(*     handler that awaits one chat-completion call), and                  *)
(*   - the OCR script (testOCR: read a local image, await one              *)
(*     text-detection call, print the outcome).                            *)
(*                                                                         *)
(* JavaScript strings are modelled as sequences of one-character strings,  *)
(* so that trimming, concatenation and substring tests are computed.       *)
(* JSON values are records [t |-> type tag, v |-> payload], the payload    *)
(* always a sequence: the characters of a string, the decimal digits of a  *)
(* number, the literal of a boolean, the own keys of an object.            *)
(***************************************************************************)
EXTENDS Integers, Sequences, FiniteSets, TLC

\* ------------------------------------------------------------------ bounds

\* Number of requests that may be in flight at the same time.
NumRequests == 2

\* Longest textAnnotations list the text-detection service returns.
MaxAnnotations == 2

Requests == 1..NumRequests

\* ------------------------------------------------------- string constants

SystemContent ==
  << "Y", "o", "u", " ", "a", "r", "e", " ", "a", "n", " ", "a", "s", "s",
     "i", "s", "t", "a", "n", "t", " ", "t", "h", "a", "t", " ", "e", "x",
     "t", "r", "a", "c", "t", "s", " ", "i", "n", "g", "r", "e", "d", "i",
     "e", "n", "t", "s", " ", "f", "r", "o", "m", " ", "t", "e", "x", "t",
     "." >>

UserPrefix ==
  << "E", "x", "t", "r", "a", "c", "t", " ", "a", " ", "c", "l", "e", "a",
     "n", " ", "l", "i", "s", "t", " ", "o", "f", " ", "i", "n", "g", "r",
     "e", "d", "i", "e", "n", "t", "s", " ", "f", "r", "o", "m", " ", "t",
     "h", "i", "s", " ", "t", "e", "x", "t", ":", " " >>

NoTextProvided ==
  << "N", "o", " ", "t", "e", "x", "t", " ", "p", "r", "o", "v", "i", "d",
     "e", "d" >>

FailedToExtract ==
  << "F", "a", "i", "l", "e", "d", " ", "t", "o", " ", "e", "x", "t", "r",
     "a", "c", "t", " ", "i", "n", "g", "r", "e", "d", "i", "e", "n", "t",
     "s" >>

ObjectObject ==
  << "[", "o", "b", "j", "e", "c", "t", " ", "O", "b", "j", "e", "c", "t",
     "]" >>

\* ------------------------------------------------------------ JSON values

JUndefined == [t |-> "undefined", v |-> << >>]
JNull == [t |-> "null", v |-> << >>]
JStr(s) == [t |-> "string", v |-> s]
JNum(digits) == [t |-> "number", v |-> digits]
JBool(lit) == [t |-> "boolean", v |-> lit]
JObj(keys) == [t |-> "object", v |-> keys]

\* The values the `text` field of a parsed JSON body is drawn from:
\* absent, null, "", 0, false, a whitespace-only string, a string with
\* inner and outer whitespace, a non-zero number, a plain object and an
\* object that has an own (hence non-callable) "toString" member.
FalsyTexts ==
  { JUndefined, JNull, JStr(<< >>), JNum(<<"0">>),
    JBool(<<"f", "a", "l", "s", "e">>) }

TruthyTexts ==
  { JStr(<<" ">>), JStr(<<"a", " ", "b">>), JNum(<<"5">>),
    JObj(<< >>), JObj(<<"toString">>) }

TextValues == FalsyTexts \cup TruthyTexts

\* Variant of Falsy: the test `text == null`, which lets "", 0 and false
\* through.
FalsyMissingOnly(text) == text.t \in {"undefined", "null"}

\* Variant of Falsy: the test `!text || !text.trim()`, which also rejects a
\* whitespace-only string.
FalsyOrBlank(text) ==
  \/ text.t \in {"undefined", "null"}
  \/ text.t = "string" /\ \A i \in 1..Len(text.v) : text.v[i] \in {" ", "\n", "\t", "\r"}
  \/ text.t = "number" /\ text.v = <<"0">>
  \/ text.t = "boolean" /\ text.v = <<"f", "a", "l", "s", "e">>

\* JavaScript ToBoolean, negated: the test of `if (!text)`.
Falsy(text) ==
  \/ text.t \in {"undefined", "null"}
  \/ text.t = "string" /\ text.v = << >>
  \/ text.t = "number" /\ text.v = <<"0">>
  \/ text.t = "boolean" /\ text.v = <<"f", "a", "l", "s", "e">>

\* Results of evaluating an expression that may throw.
Ok(s) == [ok |-> TRUE, v |-> s, err |-> "none"]
Throw(e) == [ok |-> FALSE, v |-> << >>, err |-> e]

\* JavaScript ToString as applied by a template literal `${text}` to a
\* truthy JSON value.  An object is converted by OrdinaryToPrimitive with
\* hint "string": an own "toString" member parsed from JSON is not callable,
\* Object.prototype.valueOf returns the object itself, so a TypeError is
\* thrown; otherwise Object.prototype.toString yields "[object Object]".
ToStr(text) ==
  IF text.t = "object"
    THEN IF \E i \in 1..Len(text.v) : text.v[i] = "toString"
           THEN Throw("TypeError")
           ELSE Ok(ObjectObject)
    ELSE Ok(text.v)

\* `text?.length` of the log line: defined for strings only (<<n>>), else
\* undefined (<< >>).
OptLength(text) == IF text.t = "string" THEN <<Len(text.v)>> ELSE << >>

\* String.prototype.trim.
WhiteSpace == {" ", "\n", "\t", "\r"}

RECURSIVE TrimStart(_)
TrimStart(s) ==
  IF s # << >> /\ Head(s) \in WhiteSpace THEN TrimStart(Tail(s)) ELSE s

RECURSIVE TrimEnd(_)
TrimEnd(s) ==
  IF s # << >> /\ s[Len(s)] \in WhiteSpace
    THEN TrimEnd(SubSeq(s, 1, Len(s) - 1))
    ELSE s

Trim(s) == TrimEnd(TrimStart(s))

\* --------------------------------------------- chat-completion call shapes

\* The content of the user message: the template literal of the handler.
UserContent(text) ==
  LET s == ToStr(text)
  IN  IF s.ok THEN Ok(UserPrefix \o s.v) ELSE s

\* The argument of openai.chat.completions.create.
ChatRequest(userContent) ==
  [ model |-> "gpt-5-mini",
    messages |-> << [role |-> "system", content |-> SystemContent],
                    [role |-> "user", content |-> userContent] >>,
    temperature |-> 0 ]

\* Outcomes of the awaited call: the promise rejects with an error, or
\* resolves with a response object whose shape the service decides.
Choice(hasMessage, content) == [hasMessage |-> hasMessage, content |-> content]

Rejected(e) ==
  [settled |-> "rejected", err |-> e, hasChoices |-> FALSE, choices |-> << >>]
Resolved(hasChoices, choices) ==
  [settled |-> "resolved", err |-> "none", hasChoices |-> hasChoices,
   choices |-> choices]

NoOutcome ==
  [settled |-> "pending", err |-> "none", hasChoices |-> FALSE,
   choices |-> << >>]

CallErrors == {"network", "auth", "quota"}

ChatOutcomes ==
  { Rejected(e) : e \in CallErrors } \cup
  { Resolved(FALSE, << >>),
    Resolved(TRUE, << >>),
    Resolved(TRUE, << Choice(FALSE, JUndefined) >>),
    Resolved(TRUE, << Choice(TRUE, JNull) >>),
    Resolved(TRUE, << Choice(TRUE, JStr(<<" ", "F", "\n", "E", "\n">>)),
                      Choice(TRUE, JStr(<<"x">>)) >>) }

\* Variant of ExtractIngredients without the trim:
\* response.choices[0].message.content
ExtractUntrimmed(resp) ==
  IF ~resp.hasChoices THEN Throw("TypeError")
  ELSE IF Len(resp.choices) = 0 THEN Throw("TypeError")
  ELSE IF ~resp.choices[1].hasMessage THEN Throw("TypeError")
  ELSE IF resp.choices[1].content.t # "string" THEN Throw("TypeError")
  ELSE Ok(resp.choices[1].content.v)

\* response.choices[0].message.content.trim()
ExtractIngredients(resp) ==
  IF ~resp.hasChoices THEN Throw("TypeError")
  ELSE IF Len(resp.choices) = 0 THEN Throw("TypeError")
  ELSE IF ~resp.choices[1].hasMessage THEN Throw("TypeError")
  ELSE IF resp.choices[1].content.t # "string" THEN Throw("TypeError")
  ELSE Ok(Trim(resp.choices[1].content.v))

\* ------------------------------------------------------------ HTTP replies

Reply(status, key, value) == [status |-> status, key |-> key, value |-> value]

\* res.status(400).json({ error: "No text provided" })
ValidationReply == Reply(400, "error", NoTextProvided)

\* res.json({ ingredients })
SuccessReply(ingredients) == Reply(200, "ingredients", ingredients)

\* Variant of FailureReply that returns the exception to the caller:
\* res.status(500).json({ error: err.message })
FailureReplyWithDetail(err) == Reply(500, "error", <<err>>)

\* res.status(500).json({ error: "Failed to extract ingredients" })
FailureReply(err) == Reply(500, "error", FailedToExtract)

\* -------------------------------------------------------------- variables

VARIABLES
  pc,         \* pc[r]: position of request r's handler
  text,       \* text[r]: the `text` destructured from r's body
  calls,      \* calls[r]: chat-completion calls issued for r
  outcome,    \* outcome[r]: how r's awaited call settled
  replies,    \* replies[r]: HTTP replies sent for r
  logged,     \* logged[r]: console lines written by r's handler
  up,         \* the server process is running
  ocrPc,      \* position of the testOCR run
  ocrCalls,   \* text-detection calls issued by testOCR
  ocrOutcome, \* how the awaited text-detection call settled
  ocrLog,     \* console lines written by testOCR
  ocrPromise, \* state of the promise returned by testOCR()
  ocrReplies  \* HTTP replies sent by the OCR variant

serverVars == <<pc, text, calls, outcome, replies, logged, up>>
ocrVars == <<ocrPc, ocrCalls, ocrOutcome, ocrLog, ocrPromise, ocrReplies>>
vars == <<serverVars, ocrVars>>

\* console.log("Received text length:", text?.length)
ReceivedLine(t) ==
  [stream |-> "stdout", label |-> "Received text length:", arg |-> OptLength(t),
   err |-> "none"]

\* console.error(err)
ErrorLine(e) == [stream |-> "stderr", label |-> "", arg |-> << >>, err |-> e]

\* Variant of CatchClause that logs and rethrows: the rejection of the
\* async handler is unhandled, no reply is sent and the process exits.
CatchRethrow(r, e, lines) ==
  /\ logged' = [logged EXCEPT ![r] = lines \o <<ErrorLine(e)>>]
  /\ pc' = [pc EXCEPT ![r] = "done"]
  /\ up' = FALSE
  /\ UNCHANGED replies

\* Variant of CatchClause that only logs, as the catch clause of testOCR
\* does: no reply is sent.
CatchLogOnly(r, e, lines) ==
  /\ logged' = [logged EXCEPT ![r] = lines \o <<ErrorLine(e)>>]
  /\ pc' = [pc EXCEPT ![r] = "done"]
  /\ UNCHANGED <<replies, up>>

\* The catch clause of the handler, entered with the thrown value: log it,
\* reply 500, and the async function completes normally.
CatchClause(r, e, lines) ==
  /\ logged' = [logged EXCEPT ![r] = lines \o <<ErrorLine(e)>>]
  /\ replies' = [replies EXCEPT ![r] = Append(@, FailureReply(e))]
  /\ pc' = [pc EXCEPT ![r] = "done"]
  /\ up' = up

\* Variant of OwnOutcome with the response kept in a variable shared by all
\* handlers: the continuation reads whichever settled response is there.
SharedOutcome(r) == outcome[CHOOSE q \in Requests : pc[q] = "settled"]

\* The response object the continuation of request r works on.
OwnOutcome(r) == outcome[r]

\* A request whose body carries one of `texts` arrives and the handler runs
\* up to its first suspension point.
HandleFrom(r, texts) ==
  /\ up
  /\ pc[r] = "idle"
  /\ \E t \in texts :
       LET lines == <<ReceivedLine(t)>>
           content == UserContent(t)
       IN  /\ text' = [text EXCEPT ![r] = t]
           /\ IF Falsy(t)
                THEN /\ replies' = [replies EXCEPT ![r] = Append(@, ValidationReply)]
                     /\ pc' = [pc EXCEPT ![r] = "done"]
                     /\ logged' = [logged EXCEPT ![r] = lines]
                     /\ UNCHANGED <<calls, up>>
                ELSE IF content.ok
                  THEN /\ calls' = [calls EXCEPT ![r] = Append(@, ChatRequest(content.v))]
                       /\ pc' = [pc EXCEPT ![r] = "awaiting"]
                       /\ logged' = [logged EXCEPT ![r] = lines]
                       /\ UNCHANGED <<replies, up>>
                  ELSE /\ CatchClause(r, content.err, lines)
                       /\ UNCHANGED calls
  /\ UNCHANGED <<outcome, ocrVars>>

Handle(r) == HandleFrom(r, TextValues)

\* The external service settles the call of request r with one of
\* `outcomes`.
SettleFrom(r, outcomes) ==
  /\ up
  /\ pc[r] = "awaiting"
  /\ \E o \in outcomes : outcome' = [outcome EXCEPT ![r] = o]
  /\ pc' = [pc EXCEPT ![r] = "settled"]
  /\ UNCHANGED <<text, calls, replies, logged, up, ocrVars>>

Settle(r) == SettleFrom(r, ChatOutcomes)

\* The handler of request r resumes after the await.
Resume(r) ==
  /\ up
  /\ pc[r] = "settled"
  /\ LET o == OwnOutcome(r)
         ing == ExtractIngredients(o)
     IN  IF o.settled = "rejected"
           THEN CatchClause(r, o.err, logged[r])
           ELSE IF ing.ok
             THEN /\ replies' = [replies EXCEPT ![r] = Append(@, SuccessReply(ing.v))]
                  /\ pc' = [pc EXCEPT ![r] = "done"]
                  /\ UNCHANGED <<logged, up>>
             ELSE CatchClause(r, ing.err, logged[r])
  /\ UNCHANGED <<text, calls, outcome, ocrVars>>

\* ---------------------------------------------------------- the OCR script

\* Contents fs.readFileSync may return for ./test-image.jpg.
ImageBuffers == {<<"i", "1">>, <<"i", "2">>, <<"i", "3">>}

\* Errors of the OCR variant: reading the file, or the rejected call.
ReadErrors == {"ENOENT"}
DetectErrors == {"auth", "quota", "badimage"}

\* A text annotation; its description may be missing.
Annotation(hasDescription, description) ==
  [hasDescription |-> hasDescription, description |-> description]

Annotations ==
  { Annotation(TRUE, <<"A">>), Annotation(TRUE, <<"B", "\n">>),
    Annotation(FALSE, << >>) }

AnnotationLists ==
  UNION { [1..n -> Annotations] : n \in 0..MaxAnnotations }

\* Outcomes of client.textDetection: a rejection, or a resolved array whose
\* first element (if any) is the result; result.textAnnotations is absent,
\* null or a list.
OcrRejected(e) ==
  [settled |-> "rejected", err |-> e, hasResult |-> FALSE,
   annotationsKind |-> "undefined", annotations |-> << >>]
OcrResolved(hasResult, kind, list) ==
  [settled |-> "resolved", err |-> "none", hasResult |-> hasResult,
   annotationsKind |-> kind, annotations |-> list]

NoOcrOutcome ==
  [settled |-> "pending", err |-> "none", hasResult |-> FALSE,
   annotationsKind |-> "undefined", annotations |-> << >>]

OcrOutcomes ==
  { OcrRejected(e) : e \in DetectErrors } \cup
  { OcrResolved(FALSE, "undefined", << >>),
    OcrResolved(TRUE, "undefined", << >>),
    OcrResolved(TRUE, "null", << >>) } \cup
  { OcrResolved(TRUE, "array", l) : l \in AnnotationLists }

\* The argument of client.textDetection.
DetectRequest(buffer) == [image |-> [content |-> buffer]]

\* Console lines of testOCR.
NoTextLine ==
  [stream |-> "stdout", label |-> "No text detected!", nargs |-> 0,
   arg |-> JUndefined, err |-> "none"]
TextLine(description) ==
  [stream |-> "stdout", label |-> "Text detected:\n", nargs |-> 1,
   arg |-> description, err |-> "none"]
OcrErrorLine(e) ==
  [stream |-> "stderr", label |-> "Error with Google Vision API:", nargs |-> 1,
   arg |-> JUndefined, err |-> e]

\* Variant of FirstDescription reading the last annotation:
\* detections[detections.length - 1].description
LastDescription(detections) ==
  IF detections[Len(detections)].hasDescription
    THEN JStr(detections[Len(detections)].description)
    ELSE JUndefined

\* detections[0].description
FirstDescription(detections) ==
  IF detections[1].hasDescription
    THEN JStr(detections[1].description)
    ELSE JUndefined

\* `!detections || detections.length === 0`
NoDetections(o) ==
  \/ o.annotationsKind \in {"undefined", "null"}
  \/ Len(o.annotations) = 0

\* The body of the try block after the await: what it prints, or what it
\* throws (`const [result]` of an empty array is undefined, and reading
\* result.textAnnotations then throws).
Report(o) ==
  IF ~o.hasResult THEN Throw("TypeError")
  ELSE IF NoDetections(o) THEN Ok(<<NoTextLine>>)
  ELSE Ok(<<TextLine(FirstDescription(o.annotations))>>)

\* Variant of OcrCatch that rethrows: the promise of testOCR() rejects.
OcrRethrow(e) ==
  /\ ocrPromise' = "rejected"
  /\ ocrPc' = "done"
  /\ UNCHANGED <<ocrLog, ocrReplies>>

\* The catch clause of testOCR: log the error; the async function then
\* completes normally.  No reply is sent to anyone.
OcrCatch(e) ==
  /\ ocrLog' = Append(ocrLog, OcrErrorLine(e))
  /\ ocrPromise' = "fulfilled"
  /\ ocrPc' = "done"
  /\ UNCHANGED ocrReplies

\* testOCR() is called: the image is read and the call issued, or the read
\* throws.
OcrStart ==
  /\ ocrPc = "start"
  /\ \/ \E b \in ImageBuffers :
          /\ ocrCalls' = Append(ocrCalls, DetectRequest(b))
          /\ ocrPc' = "awaiting"
          /\ ocrPromise' = "pending"
          /\ UNCHANGED <<ocrLog, ocrReplies>>
     \/ \E e \in ReadErrors :
          /\ OcrCatch(e)
          /\ UNCHANGED ocrCalls
  /\ UNCHANGED <<ocrOutcome, serverVars>>

\* The text-detection service settles the call.
OcrSettle ==
  /\ ocrPc = "awaiting"
  /\ \E o \in OcrOutcomes : ocrOutcome' = o
  /\ ocrPc' = "settled"
  /\ UNCHANGED <<ocrCalls, ocrLog, ocrPromise, ocrReplies, serverVars>>

\* testOCR resumes after the await.
OcrResume ==
  /\ ocrPc = "settled"
  /\ LET rep == Report(ocrOutcome)
     IN  IF ocrOutcome.settled = "rejected"
           THEN OcrCatch(ocrOutcome.err)
           ELSE IF rep.ok
             THEN /\ ocrLog' = ocrLog \o rep.v
                  /\ ocrPromise' = "fulfilled"
                  /\ ocrPc' = "done"
                  /\ UNCHANGED ocrReplies
             ELSE OcrCatch(rep.err)
  /\ UNCHANGED <<ocrCalls, ocrOutcome, serverVars>>

\* --------------------------------------------------------- specifications

Init ==
  /\ pc = [r \in Requests |-> "idle"]
  /\ text = [r \in Requests |-> JUndefined]
  /\ calls = [r \in Requests |-> << >>]
  /\ outcome = [r \in Requests |-> NoOutcome]
  /\ replies = [r \in Requests |-> << >>]
  /\ logged = [r \in Requests |-> << >>]
  /\ up = TRUE
  /\ ocrPc = "start"
  /\ ocrCalls = << >>
  /\ ocrOutcome = NoOcrOutcome
  /\ ocrLog = << >>
  /\ ocrPromise = "none"
  /\ ocrReplies = << >>

Next == \E r \in Requests : Handle(r) \/ Settle(r) \/ Resume(r)

OcrNext == OcrStart \/ OcrSettle \/ OcrResume

\* The /extract-ingredients server.
Spec == Init /\ [][Next]_vars

\* One input per path of the handler: texts that are rejected, that make
\* the prompt throw and that are forwarded; calls that are rejected, that
\* resolve malformed and that resolve well-formed.
PathTexts ==
  { JUndefined, JStr(<< >>), JStr(<<"a", " ", "b">>), JObj(<<"toString">>) }

PathOutcomes ==
  { Rejected("network"),
    Resolved(FALSE, << >>),
    Resolved(TRUE, << Choice(TRUE, JStr(<<" ", "F", "\n", "E", "\n">>)) >>) }

FairNext ==
  \E r \in Requests :
    HandleFrom(r, PathTexts) \/ SettleFrom(r, PathOutcomes) \/ Resume(r)

\* The server over one input per path, with the continuation of every
\* settled request eventually run: the event loop runs each queued
\* continuation.  Arrival of requests and settling of calls are up to the
\* environment and carry no fairness.
FairSpec ==
  Init /\ [][FairNext]_vars /\ \A r \in Requests : WF_vars(Resume(r))

\* The OCR script.
SpecOCR == Init /\ [][OcrNext]_vars


\* ------------------------------------------------------------- properties

\* The request r has been accepted: its handler has started.
Accepted(r) == pc[r] # "idle"

\* The awaited call of r settled with a response of the expected shape.
WellFormed(o) ==
  /\ o.settled = "resolved"
  /\ o.hasChoices
  /\ Len(o.choices) >= 1
  /\ o.choices[1].hasMessage
  /\ o.choices[1].content.t = "string"

\* The awaited call of r settled as a failure: rejected, or malformed.
CallFailed(o) == o.settled # "pending" /\ ~WellFormed(o)

AllWhite(s) == \A i \in 1..Len(s) : s[i] \in WhiteSpace

\* res is s with its surrounding whitespace removed, stated without Trim.
IsTrimOf(res, s) ==
  /\ res = << >> \/ (res[1] \notin WhiteSpace /\ res[Len(res)] \notin WhiteSpace)
  /\ \E i \in 0..Len(s) :
       /\ i + Len(res) <= Len(s)
       /\ SubSeq(s, i + 1, i + Len(res)) = res
       /\ AllWhite(SubSeq(s, 1, i))
       /\ AllWhite(SubSeq(s, i + Len(res) + 1, Len(s)))

\* s occurs in p as a contiguous substring.
Contains(p, s) ==
  \E i \in 0..(Len(p) - Len(s)) : SubSeq(p, i + 1, i + Len(s)) = s

\* The user message of a call.
UserMessage(c) == c.messages[2]

\* C1: a request whose `text` is missing or empty never has the external
\* call issued for it and is answered 400 {error: "No text provided"}.
C1_MissingTextRejected ==
  \A r \in Requests :
    (Accepted(r) /\ text[r] \in {JUndefined, JStr(<< >>)})
      => /\ calls[r] = << >>
         /\ replies[r] = << Reply(400, "error", NoTextProvided) >>

C1_Witness ==
  \E r \in Requests : pc[r] = "done" /\ text[r] = JStr(<< >>)

\* C2: a request with a non-empty string `text` has the chat-completion
\* call issued exactly once, with a user message containing the text
\* verbatim; when the call succeeds the reply is 200 with `ingredients`
\* the first choice's content with surrounding whitespace trimmed.
C2_NonEmptyTextForwarded ==
  \A r \in Requests :
    (Accepted(r) /\ text[r].t = "string" /\ text[r].v # << >>)
      => /\ Len(calls[r]) = 1
         /\ UserMessage(calls[r][1]).role = "user"
         /\ Contains(UserMessage(calls[r][1]).content, text[r].v)
         /\ (pc[r] = "done" /\ WellFormed(outcome[r]))
              => /\ Len(replies[r]) = 1
                 /\ replies[r][1].status = 200
                 /\ replies[r][1].key = "ingredients"
                 /\ IsTrimOf(replies[r][1].value,
                             outcome[r].choices[1].content.v)

C2_Witness ==
  \E r \in Requests :
    /\ pc[r] = "done"
    /\ text[r] = JStr(<<"a", " ", "b">>)
    /\ WellFormed(outcome[r])
    /\ outcome[r].choices[1].content.v # replies[r][1].value

\* C3: every failure of the external call (rejection, or a malformed
\* response) is answered 500 {error: "Failed to extract ingredients"}, and
\* the server keeps running: it accepts new requests and resumes settled
\* ones.
C3_FailureMappedTo500 ==
  \A r \in Requests :
    (pc[r] = "done" /\ CallFailed(outcome[r]))
      => /\ replies[r] = << Reply(500, "error", FailedToExtract) >>
         /\ up
         /\ \A q \in Requests :
              /\ pc[q] = "idle" => ENABLED Handle(q)
              /\ pc[q] = "awaiting" => ENABLED Settle(q)
              /\ pc[q] = "settled" => ENABLED Resume(q)

C3_Witness ==
  \E r, q \in Requests :
    /\ pc[r] = "done" /\ outcome[r].settled = "rejected"
    /\ pc[q] = "done" /\ outcome[q].settled = "resolved"
    /\ ~WellFormed(outcome[q])

\* C4: every accepted request receives exactly one reply: never two, a
\* finished handler has sent exactly one, an unfinished one none yet, and a
\* request whose external call has settled is eventually answered.
C4_ExactlyOneReply ==
  /\ [](\A r \in Requests :
          /\ Len(replies[r]) <= 1
          /\ pc[r] = "done" <=> Len(replies[r]) = 1
          /\ (Len(replies[r]) = 1 => replies[r][1].status \in {200, 400, 500}))
  /\ \A r \in Requests : (pc[r] = "settled") ~> (Len(replies[r]) = 1)

C4_Witness ==
  /\ \A r \in Requests : pc[r] = "done" /\ Len(replies[r]) = 1
  /\ \E r, q \in Requests :
       replies[r][1].status = 200 /\ replies[q][1].status = 500

\* The exception the catch clause of request r was entered with.
Caught(r) ==
  IF outcome[r].settled = "rejected" THEN outcome[r].err ELSE "TypeError"

\* Request r finished on the catch path.
Failed(r) ==
  /\ pc[r] = "done"
  /\ ~Falsy(text[r])
  /\ outcome[r].settled = "pending" \/ CallFailed(outcome[r])

\* C5: the 500 reply carries no exception detail: two requests that failed
\* with different exceptions get the same status and body, the fixed
\* message, and each exception appears on the server's console only.
C5_NoExceptionLeak ==
  \A r, q \in Requests :
    (Failed(r) /\ Failed(q) /\ Caught(r) # Caught(q))
      => /\ replies[r] = replies[q]
         /\ replies[r][1].status = 500
         /\ replies[r][1].value = FailedToExtract
         /\ logged[r][Len(logged[r])].err = Caught(r)
         /\ logged[q][Len(logged[q])].err = Caught(q)

C5_Witness ==
  \E r, q \in Requests :
    /\ Failed(r) /\ Failed(q)
    /\ outcome[r].settled = "rejected" /\ outcome[q].settled = "rejected"
    /\ outcome[r].err # outcome[q].err

\* The text-detection call resolved with a result.
OcrSucceeded == ocrOutcome.settled = "resolved" /\ ocrOutcome.hasResult

\* The annotation list of the result exists and is non-empty.
HasAnnotation ==
  ocrOutcome.annotationsKind = "array" /\ Len(ocrOutcome.annotations) >= 1

\* C6: after a successful text-detection response, testOCR reports the first
\* annotation's description when the list exists and is non-empty, and the
\* "No text detected!" sentinel otherwise; neither outcome takes the error
\* path.
C6_FirstAnnotationOrSentinel ==
  (ocrPc = "done" /\ OcrSucceeded)
    => /\ Len(ocrLog) = 1
       /\ ocrLog[1].stream = "stdout"
       /\ ocrPromise = "fulfilled"
       /\ IF HasAnnotation
            THEN /\ ocrLog[1].label = "Text detected:\n"
                 /\ ocrLog[1].arg =
                      (IF ocrOutcome.annotations[1].hasDescription
                         THEN JStr(ocrOutcome.annotations[1].description)
                         ELSE JUndefined)
            ELSE ocrLog[1] = NoTextLine

C6_Witness ==
  /\ ocrPc = "done"
  /\ OcrSucceeded
  /\ Len(ocrOutcome.annotations) = 2
  /\ ocrOutcome.annotations[1] # ocrOutcome.annotations[2]

\* The OCR run ended on a failure path: the read threw, the call was
\* rejected, or the response had no result.
OcrFailed ==
  /\ ocrPc = "done"
  /\ ocrCalls = << >> \/ ocrOutcome.settled = "rejected" \/ ~ocrOutcome.hasResult

\* The OCR run ended after its text-detection call was rejected.
DetectionFailed == ocrPc = "done" /\ ocrOutcome.settled = "rejected"

\* C7: every failure of the text-detection call of the OCR variant ends
\* with an HTTP error reply sent to the caller, never with the failure only
\* logged.
C7_OcrFailureReplied ==
  DetectionFailed
    => /\ Len(ocrReplies) = 1
       /\ ocrReplies[1].status >= 400

\* Request r's reply as a function of its own text and its own outcome.
ExpectedReply(t, o) ==
  IF Falsy(t) THEN ValidationReply
  ELSE IF ~ToStr(t).ok THEN Reply(500, "error", FailedToExtract)
  ELSE IF WellFormed(o) THEN SuccessReply(Trim(o.choices[1].content.v))
  ELSE Reply(500, "error", FailedToExtract)

\* C8: no state is shared between requests: under every interleaving, the
\* reply of a finished request is the one its own text and the outcome of
\* its own call determine, whatever the other requests carry and in
\* whatever order they complete.
C8_ReplyFromOwnRequest ==
  \A r \in Requests :
    pc[r] = "done" => replies[r] = << ExpectedReply(text[r], outcome[r]) >>

C8_Witness ==
  \E r, q \in Requests :
    /\ pc[r] = "done" /\ pc[q] = "settled"
    /\ WellFormed(outcome[r]) /\ outcome[q].settled = "rejected"
    /\ text[r] # text[q]

\* C9: a failure while reading the image or a rejected text-detection call
\* is caught inside testOCR: the promise of testOCR never rejects, and a
\* finished run has printed exactly one of: the text, the sentinel, the
\* error.
C9_TestOcrNeverRejects ==
  /\ ocrPromise # "rejected"
  /\ ocrPc = "done"
       => /\ ocrPromise = "fulfilled"
          /\ Len(ocrLog) = 1
          /\ ocrLog[1].label \in
               {"Text detected:\n", "No text detected!",
                "Error with Google Vision API:"}
          /\ OcrFailed
               <=> (ocrLog[1].label = "Error with Google Vision API:"
                    /\ ocrLog[1].stream = "stderr")

C9_Witness ==
  /\ ocrPc = "done"
  /\ ocrCalls = << >>
  /\ ocrLog = << OcrErrorLine("ENOENT") >>

\* What `${text}` embeds for the values whose conversion succeeds.
Embedded(t) == IF t.t = "object" THEN ObjectObject ELSE t.v

\* C10 as stated: a request is rejected with 400 exactly when `text` is
\* falsy, and every other value is forwarded to the external call embedded
\* in the prompt.
C10_EveryTruthyForwarded ==
  \A r \in Requests :
    Accepted(r)
      => /\ text[r] \in FalsyTexts
              <=> (replies[r] # << >> /\ replies[r][1].status = 400)
         /\ text[r] \notin FalsyTexts
              => /\ Len(calls[r]) = 1
                 /\ Contains(UserMessage(calls[r][1]).content, Embedded(text[r]))

\* The own keys of an object make its string conversion throw.
Unconvertible(t) ==
  t.t = "object" /\ \E i \in 1..Len(t.v) : t.v[i] = "toString"

\* C10 amended: a request is rejected with 400 exactly when `text` is
\* falsy; every other value passes validation, a whitespace-only string, a
\* number or a plain object included, and is forwarded embedded in the
\* prompt as its string conversion, except an object whose string
\* conversion throws, which is answered 500 with no external call issued.
C10_TruthinessValidation ==
  \A r \in Requests :
    Accepted(r)
      => /\ text[r] \in FalsyTexts
              <=> (replies[r] # << >> /\ replies[r][1].status = 400)
         /\ (text[r] \notin FalsyTexts /\ ~Unconvertible(text[r]))
              => /\ Len(calls[r]) = 1
                 /\ UserMessage(calls[r][1]).content
                      = UserPrefix \o Embedded(text[r])
         /\ (text[r] \notin FalsyTexts /\ Unconvertible(text[r]))
              => /\ calls[r] = << >>
                 /\ replies[r] = << Reply(500, "error", FailedToExtract) >>

C10_Witness ==
  \E r, q \in Requests :
    /\ text[r] = JStr(<<" ">>) /\ pc[r] = "awaiting"
    /\ text[q] = JObj(<<"toString">>) /\ pc[q] = "done"

====
